---- MODULE Spec2Model ----
(***************************************************************************)
(* simple-weather: the page-load handler of js/main.js and the helpers of  *)
(* js/utils.js (fetcher, useLocation, useLanguage, render, useGradient).   *)
(*                                                                         *)
(* JavaScript strings that the code takes apart (the browser locale, the   *)
(* icon file name) are sequences of one-character strings; strings the     *)
(* code only builds or passes on are TLA+ strings.                         *)
(***************************************************************************)
EXTENDS Integers, Sequences, FiniteSets, TLC

VARIABLES
  search,       \* window.location.search, parsed: a sequence of <<key, value>>
  geo,          \* navigator.geolocation and the answer to the position request
  navLanguage,  \* navigator.language
  pc,           \* position of the DOMContentLoaded handler
  locPromise,   \* the promise useLocation returned
  resolveCalls, \* calls of resolve(...) made on that promise
  geoCalls,     \* calls of navigator.geolocation.getCurrentPosition
  location,     \* the key handed to SWR(location, fetcher)
  cache,        \* the data the revalidating source holds for the key
  fetches,      \* the fetcher calls the source has made, in the order made
  completed,    \* the fetcher calls that have settled, in the order settled
  emissions,    \* the data of every emission delivered to the watch callback
  title,        \* document.title
  app,          \* the children of the #app container
  derived,      \* the values the watch callback computed on its last full run
  fn,           \* the helper a helper-only specification applies
  fin,          \* its input
  fout,         \* its outputs so far
  fstep         \* how many times it has been applied

vars == <<search, geo, navLanguage, pc, locPromise, resolveCalls, geoCalls,
          location, cache, fetches, completed, emissions, title, app, derived,
          fn, fin, fout, fstep>>

pageVars == <<search, geo, navLanguage, pc, locPromise, resolveCalls, geoCalls,
              location, cache, fetches, completed, emissions, title, app, derived>>

helperVars == <<fn, fin, fout, fstep>>

----------------------------------------------------------------------------
(* Bounds of the model.                                                    *)

MaxFetches == 2

MaxLocaleLen == 3

MaxIconLen == 4

MaxChildren == 2

----------------------------------------------------------------------------
(* JavaScript values.                                                      *)

\* The value undefined where a character string is expected.
Undefined == <<"undefined">>

\* What URLSearchParams.get returns for an absent key.
Null == "null"

\* The location variable of the handler before it is assigned.
NotYet == "(unassigned)"

\* The data field of an emission that carries no data.
NoData == [undefined |-> TRUE]

RECURSIVE Join(_)
\* A sequence of one-character strings as one string.
Join(s) == IF s = <<>> THEN "" ELSE Head(s) \o Join(Tail(s))

RECURSIVE SeqsUpTo(_, _)
\* Every sequence over alphabet of length at most n.
SeqsUpTo(alphabet, n) ==
  IF n = 0 THEN {<<>>}
  ELSE LET shorter == SeqsUpTo(alphabet, n - 1)
       IN  shorter \cup {Append(s, c) : s \in shorter, c \in alphabet}

----------------------------------------------------------------------------
(* useLanguage, utils.js 53-61.                                            *)

RECURSIVE SplitHead(_, _)
\* str.split(sep)[0]: the characters before the first separator.
SplitHead(str, sep) ==
  IF str = <<>> \/ Head(str) = sep THEN <<>>
  ELSE <<Head(str)>> \o SplitHead(Tail(str), sep)

\* A JavaScript string or undefined is truthy unless undefined or empty.
Truthy(str) == str # Undefined /\ str # <<>>

\* resolve(navigator.language), the split forgotten.
useLanguage_NoSplit(language) ==
  IF Truthy(language) THEN language ELSE <<"e", "n">>

\* The value the promise of useLanguage resolves with.
useLanguage(language) ==
  IF Truthy(language) THEN SplitHead(language, "-") ELSE <<"e", "n">>

----------------------------------------------------------------------------
(* useGradient, utils.js 76-106, and the table it imports.                 *)

Num(n) == [type |-> "number", value |-> n]

Str(s) == [type |-> "string", value |-> s]

\* A condition object without a code property.
NoCode == [type |-> "undefined"]

\* The category table of js/condition-codes.js.
conditions ==
  [sunny    |-> {1000},
   cloudy   |-> {1003, 1006},
   overcast |-> {1009},
   foggy    |-> {1030, 1135, 1147},
   drizzle  |-> {1150, 1153},
   rainy    |-> {1063, 1183, 1195}]

\* Array.prototype.includes on an array of numbers: strict, typed equality.
ArrayIncludes(array, code) == code.type = "number" /\ code.value \in array

\* String.prototype.includes: sub occurs in str as a contiguous run.
StringIncludes(str, sub) ==
  \E i \in 0..(Len(str) - Len(sub)) :
    \A j \in 1..Len(sub) : str[i + j] = sub[j]

Day == <<"d", "a", "y">>

\* The switch with the return of its first case lost: a sunny code falls
\* through to the rainy-or-cloudy case.
GradientFor_SunnyFallsThrough(code, isDay) ==
  IF ArrayIncludes(conditions.sunny, code)
     \/ ArrayIncludes(conditions.rainy, code)
     \/ ArrayIncludes(conditions.cloudy, code) THEN
    IF isDay THEN "--from: var(--blue); --to: var(--aqua)"
             ELSE "--from: var(--navy); --to: var(--blue)"
  ELSE IF ArrayIncludes(conditions.drizzle, code) THEN
    IF isDay THEN "--from: var(--blue); --to: var(--teal)"
             ELSE "--from: var(--navy); --to: var(--teal)"
  ELSE IF ArrayIncludes(conditions.overcast, code) THEN
    IF isDay THEN "--from: var(--navy); --to: var(--teal)"
             ELSE "--from: var(--navy); --to: var(--olive)"
  ELSE IF ArrayIncludes(conditions.foggy, code) THEN
    IF isDay THEN "--from: var(--blue); --to: var(--olive)"
             ELSE "--from: var(--navy); --to: var(--olive)"
  ELSE
    IF isDay THEN "--from: var(--blue); --to: var(--aqua)"
             ELSE "--from: var(--navy); --to: var(--blue)"

\* switch (true) of useGradient: the first case that is true returns.
GradientFor(code, isDay) ==
  IF ArrayIncludes(conditions.sunny, code) THEN
    IF isDay THEN "--from: var(--orange); --to: var(--yellow)"
             ELSE "--from: var(--navy); --to: var(--blue)"
  ELSE IF ArrayIncludes(conditions.rainy, code)
          \/ ArrayIncludes(conditions.cloudy, code) THEN
    IF isDay THEN "--from: var(--blue); --to: var(--aqua)"
             ELSE "--from: var(--navy); --to: var(--blue)"
  ELSE IF ArrayIncludes(conditions.drizzle, code) THEN
    IF isDay THEN "--from: var(--blue); --to: var(--teal)"
             ELSE "--from: var(--navy); --to: var(--teal)"
  ELSE IF ArrayIncludes(conditions.overcast, code) THEN
    IF isDay THEN "--from: var(--navy); --to: var(--teal)"
             ELSE "--from: var(--navy); --to: var(--olive)"
  ELSE IF ArrayIncludes(conditions.foggy, code) THEN
    IF isDay THEN "--from: var(--blue); --to: var(--olive)"
             ELSE "--from: var(--navy); --to: var(--olive)"
  ELSE
    IF isDay THEN "--from: var(--blue); --to: var(--aqua)"
             ELSE "--from: var(--navy); --to: var(--blue)"

\* What a call that throws a TypeError yields in place of a descriptor.
TypeError == "TypeError"

\* const { code, icon } = condition; const isDay = icon.includes('day'):
\* reading includes of an icon that is undefined throws.
useGradient(condition) ==
  IF condition.icon = Undefined THEN TypeError
  ELSE GradientFor(condition.code, StringIncludes(condition.icon, Day))

----------------------------------------------------------------------------
(* render, utils.js 67-70.                                                 *)

render_NoClear(container, fragment) == container \o fragment

\* The children of #app after render(app): innerHTML = null empties the
\* container, appendChild moves the children of the fragment into it.
render(container, fragment) ==
  LET cleared == <<>>
  IN  cleared \o fragment

----------------------------------------------------------------------------
(* The data the weather API answers with.                                  *)

\* A WeatherResponse. localtime is the string "date time" together with
\* the fields new Date(localtime) reads from it.
Response(loc, localtime, condition, current) ==
  [location |-> [name |-> loc[1], country |-> loc[2],
                 localtime |-> [date |-> localtime[1], time |-> localtime[2],
                                month |-> localtime[3], day |-> localtime[4],
                                hour |-> localtime[5], minute |-> localtime[6]]],
   current  |-> [temp_f |-> current[1],
                 condition |-> [text |-> condition[1], code |-> Num(condition[2]),
                                icon |-> condition[3]],
                 wind_mph |-> current[2], humidity |-> current[3],
                 pressure_mb |-> current[4]]]

ParisNoon ==
  Response(<<"Paris", "France">>, <<"2024-01-01", "13:00", 1, 1, 13, 0>>,
           <<"Clear", 1000, <<"d", "a", "y">> >>, <<50, 5, 60, 1012>>)

LondonNight ==
  Response(<<"London", "United Kingdom">>, <<"2024-01-02", "0:05", 1, 2, 0, 5>>,
           <<"Overcast", 1009, <<"n", "i", "g", "h", "t">> >>, <<41, 9, 81, 1009>>)

Responses == {ParisNoon, LondonNight}

\* The JSON body the API sends with a 4xx status (unknown location, quota):
\* fetch resolves for it and data.json() parses it.
ErrorBody == [error |-> [code |-> 1006, message |-> "No matching location found."]]

JsonBodies == Responses \cup {ErrorBody}

----------------------------------------------------------------------------
(* The watch callback, main.js 10-56.                                      *)

MonthNames ==
  <<"January", "February", "March", "April", "May", "June", "July",
    "August", "September", "October", "November", "December">>

\* toLocaleDateString('en', {month: 'long', day: 'numeric'})
FormatDate(localtime) ==
  MonthNames[localtime.month] \o " " \o ToString(localtime.day)

\* toLocaleTimeString('en', {hour: 'numeric', minute: 'numeric', hourCycle: 'h12'})
FormatTime(localtime) ==
  LET h12 == IF localtime.hour % 12 = 0 THEN 12 ELSE localtime.hour % 12
  IN  ToString(h12) \o ":"
      \o (IF localtime.minute < 10 THEN "0" ELSE "") \o ToString(localtime.minute)
      \o " " \o (IF localtime.hour < 12 THEN "AM" ELSE "PM")

\* const stats = [...]
Stats(current) ==
  << [icon |-> "wind",     value |-> ToString(current.wind_mph) \o " mph"],
     [icon |-> "humidity", value |-> ToString(current.humidity) \o "%"],
     [icon |-> "pressure", value |-> ToString(current.pressure_mb) \o " mb"] >>

\* <li class="stats"> of one stat.
StatItem(stat) ==
  [tag |-> "li", class |-> "stats",
   img |-> [src |-> "/img/icons/" \o stat.icon \o ".svg", alt |-> stat.icon],
   span |-> stat.value]

\* const App = html`...`: the children of the fragment, two sections.
Fragment(data) ==
  LET loc     == data.location
      current == data.current
      stats   == Stats(current)
  IN  << [tag |-> "section", class |-> "weather",
          temperature |-> ToString(current.temp_f) \o "°F",
          condition |-> current.condition.text],
         [tag |-> "section", class |-> "details",
          location |-> loc.name,
          dateAttr |-> loc.localtime.date,
          date |-> FormatDate(loc.localtime),
          timeAttr |-> loc.localtime.time,
          time |-> FormatTime(loc.localtime),
          ul |-> [i \in 1..Len(stats) |-> StatItem(stats[i])]] >>

\* document.title = `Weather forecast in ${location.name}, ${location.country}`
Title(data) ==
  "Weather forecast in " \o data.location.name \o ", " \o data.location.country

\* if (data): an emission without data is falsy.
HasData(data) == data # NoData

\* current.wind_mph (line 15) and location.name (line 26) throw a TypeError
\* when the body has no current or no location object.
Throws(data) == "current" \notin DOMAIN data \/ "location" \notin DOMAIN data

\* document.title and the children of #app as the host page ships them.
InitialTitle == "Simple Weather"

InitialApp == <<>>

\* A callback that shows an error page when the emission has no data.
WatchCallback_ErrorContent(data) ==
  IF ~HasData(data) THEN
    /\ title' = "Weather unavailable"
    /\ app' = render(app, << [tag |-> "p", class |-> "error"] >>)
    /\ UNCHANGED derived
  ELSE IF Throws(data) THEN UNCHANGED <<title, app, derived>>
  ELSE
    /\ derived' = [stats |-> Stats(data.current),
                   date  |-> FormatDate(data.location.localtime),
                   time  |-> FormatTime(data.location.localtime)]
    /\ title' = Title(data)
    /\ app' = render(app, Fragment(data))

\* A callback that renders only into a container nothing was rendered to.
WatchCallback_FirstWriteWins(data) ==
  IF ~HasData(data) \/ app # InitialApp THEN UNCHANGED <<title, app, derived>>
  ELSE IF Throws(data) THEN UNCHANGED <<title, app, derived>>
  ELSE
    /\ derived' = [stats |-> Stats(data.current),
                   date  |-> FormatDate(data.location.localtime),
                   time  |-> FormatTime(data.location.localtime)]
    /\ title' = Title(data)
    /\ app' = render(app, Fragment(data))

\* observable.watch(({ data }) => { if (data) { ... } })
WatchCallback(data) ==
  IF ~HasData(data) THEN UNCHANGED <<title, app, derived>>
  ELSE IF Throws(data) THEN UNCHANGED <<title, app, derived>>
  ELSE
    /\ derived' = [stats |-> Stats(data.current),
                   date  |-> FormatDate(data.location.localtime),
                   time  |-> FormatTime(data.location.localtime)]
    /\ title' = Title(data)
    /\ app' = render(app, Fragment(data))

\* The revalidating source delivers the snapshot { data } to the watcher.
Emit(data) ==
  /\ emissions' = Append(emissions, data)
  /\ WatchCallback(data)

----------------------------------------------------------------------------
(* The DOMContentLoaded handler, main.js 5-10, and useLocation,            *)
(* utils.js 35-47.                                                         *)

\* The query strings the page is loaded with.
Searches ==
  { <<>>,
    << <<"q", "Paris">> >>,
    << <<"q", "">> >>,
    << <<"lang", "fr">> >>,
    << <<"lang", "fr">>, <<"q", "Paris">> >>,
    << <<"q", "London">>, <<"q", "Paris">> >> }

\* The positions the browser may report, as <<latitude, longitude>>.
Coords == { <<48, 2>>, <<-33, 151>> }

\* GeolocationPositionError codes: denied, unavailable, timeout.
GeoErrors == {"PERMISSION_DENIED", "POSITION_UNAVAILABLE", "TIMEOUT"}

\* navigator.geolocation: whether the browser has it ("unsupported" when
\* not), and how the position request stands: "idle", "pending",
\* "succeeded" with the coordinates reported, "failed" with the error code.
Geo(state, coords, error) == [state |-> state, coords |-> coords, error |-> error]

HasParam(s, key) == \E i \in 1..Len(s) : s[i][1] = key

\* searchParams.get(key) that answers with the last value given for key.
SearchParamsGet_LastValue(s, key) ==
  IF HasParam(s, key)
  THEN s[CHOOSE i \in 1..Len(s) :
            s[i][1] = key /\ \A j \in (i + 1)..Len(s) : s[j][1] # key][2]
  ELSE Null

\* new URL(window.location).searchParams.get(key): the first value given
\* for key, null when the key is absent.
SearchParamsGet(s, key) ==
  IF HasParam(s, key)
  THEN s[CHOOSE i \in 1..Len(s) :
            s[i][1] = key /\ \A j \in 1..(i - 1) : s[j][1] # key][2]
  ELSE Null

\* const observable = SWR(location, fetcher); observable.watch(...): the
\* source is built on the key and hands the watcher what it holds for it.
Subscribe(key) ==
  /\ location' = key
  /\ pc' = "watching"
  /\ Emit(cache)
  /\ UNCHANGED <<cache, fetches, completed>>

\* The handler when window.location.search is a non-empty string.
LoadWithSearch ==
  /\ pc = "load"
  /\ search # <<>>
  /\ Subscribe(SearchParamsGet(search, "q"))
  /\ UNCHANGED <<search, geo, navLanguage, locPromise, resolveCalls, geoCalls>>
  /\ UNCHANGED helperVars

\* The handler when window.location.search is empty: useLocation() runs its
\* executor and the handler waits for the promise.
LoadWithoutSearch ==
  /\ pc = "load"
  /\ search = <<>>
  /\ pc' = "awaitLocation"
  /\ IF geo.state # "unsupported"
     THEN /\ geo' = Geo("pending", <<>>, "")
          /\ geoCalls' = geoCalls + 1
          /\ locPromise' = [state |-> "pending", value |-> NotYet]
          /\ UNCHANGED resolveCalls
     ELSE /\ locPromise' = [state |-> "resolved", value |-> "auto:ip"]
          /\ resolveCalls' = resolveCalls + 1
          /\ UNCHANGED <<geo, geoCalls>>
  /\ UNCHANGED <<search, navLanguage, location, cache, fetches, completed,
                 emissions, title, app, derived>>
  /\ UNCHANGED helperVars

\* resolve(value) on the promise of useLocation: the first call settles it.
ResolveLocation(value) ==
  /\ resolveCalls' = resolveCalls + 1
  /\ locPromise' = IF locPromise.state = "pending"
                   THEN [state |-> "resolved", value |-> value]
                   ELSE locPromise

\* The success callback of getCurrentPosition.
GeoSuccess(coords) ==
  /\ geo.state = "pending"
  /\ geo' = Geo("succeeded", coords, "")
  /\ ResolveLocation(ToString(coords[1]) \o "," \o ToString(coords[2]))
  /\ UNCHANGED <<search, navLanguage, pc, geoCalls, location, cache, fetches,
                 completed, emissions, title, app, derived>>
  /\ UNCHANGED helperVars

\* An error callback that resolves nothing.
GeoError_Silent(reason) ==
  /\ geo.state = "pending"
  /\ geo' = Geo("failed", <<>>, reason)
  /\ UNCHANGED <<search, navLanguage, pc, geoCalls, location, cache, fetches,
                 completed, emissions, title, app, derived, locPromise,
                 resolveCalls>>
  /\ UNCHANGED helperVars

\* The error callback of getCurrentPosition; the browser calls it with
\* TIMEOUT when no position arrived within timeout: 5000.
GeoError(reason) ==
  /\ geo.state = "pending"
  /\ geo' = Geo("failed", <<>>, reason)
  /\ ResolveLocation("auto:ip")
  /\ UNCHANGED <<search, navLanguage, pc, geoCalls, location, cache, fetches,
                 completed, emissions, title, app, derived>>
  /\ UNCHANGED helperVars

\* await useLocation() returns and the handler goes on.
LocationResolved ==
  /\ pc = "awaitLocation"
  /\ locPromise.state = "resolved"
  /\ Subscribe(locPromise.value)
  /\ UNCHANGED <<search, geo, navLanguage, locPromise, resolveCalls, geoCalls>>
  /\ UNCHANGED helperVars

----------------------------------------------------------------------------
(* fetcher, utils.js 17-27, as the revalidating source calls it.           *)

\* `${config.ApiUrl}?q=${location}&lang=${language}`
RequestUrl(key, language) ==
  "{ApiUrl}?q=" \o key \o "&lang=" \o Join(language)

\* One call of the fetcher: where it stands, the URL it requested, and
\* what its promise settled with (a body, or the error it rejected with).
Fetch(state, url, body) == [state |-> state, url |-> url, body |-> body]

SetFetch(f, state, url, body) ==
  fetches' = [fetches EXCEPT ![f] = Fetch(state, url, body)]

NetworkError == [rejected |-> "TypeError: Failed to fetch"]

ParseError == [rejected |-> "SyntaxError: Unexpected token"]

\* The source calls fetcher(location): the call runs to await useLanguage().
Revalidate ==
  /\ pc = "watching"
  /\ Len(fetches) < MaxFetches
  /\ fetches' = Append(fetches, Fetch("language", "", NoData))
  /\ UNCHANGED <<search, geo, navLanguage, pc, locPromise, resolveCalls,
                 geoCalls, location, cache, completed, emissions, title, app,
                 derived>>
  /\ UNCHANGED helperVars

\* useLanguage() has resolved: the fetcher issues the GET and awaits it.
FetcherRequest(f) ==
  /\ fetches[f].state = "language"
  /\ SetFetch(f, "inflight", RequestUrl(location, useLanguage(navLanguage)), NoData)
  /\ UNCHANGED <<search, geo, navLanguage, pc, locPromise, resolveCalls,
                 geoCalls, location, cache, completed, emissions, title, app,
                 derived>>
  /\ UNCHANGED helperVars

\* The fetcher promise rejects: the source keeps what it holds and tells
\* the watcher.
FetcherRejected(f, error) ==
  /\ SetFetch(f, "rejected", fetches[f].url, error)
  /\ completed' = Append(completed, f)
  /\ Emit(cache)
  /\ UNCHANGED <<search, geo, navLanguage, pc, locPromise, resolveCalls,
                 geoCalls, location, cache>>
  /\ UNCHANGED helperVars

\* fetch(...) rejects: a network failure.
FetchFails(f) ==
  /\ fetches[f].state = "inflight"
  /\ FetcherRejected(f, NetworkError)

\* fetch(...) resolves with a response, of whatever status; the fetcher
\* awaits data.json().
FetchResponds(f) ==
  /\ fetches[f].state = "inflight"
  /\ SetFetch(f, "parsing", fetches[f].url, NoData)
  /\ UNCHANGED <<search, geo, navLanguage, pc, locPromise, resolveCalls,
                 geoCalls, location, cache, completed, emissions, title, app,
                 derived>>
  /\ UNCHANGED helperVars

\* data.json() rejects: the response body is not JSON.
JsonFails(f) ==
  /\ fetches[f].state = "parsing"
  /\ FetcherRejected(f, ParseError)

\* A source that drops the result of a fetch when a later one has settled.
FetcherResolved_DropsSuperseded(f, body) ==
  /\ fetches[f].state = "parsing"
  /\ SetFetch(f, "resolved", fetches[f].url, body)
  /\ completed' = Append(completed, f)
  /\ IF \E g \in (f + 1)..Len(fetches) : fetches[g].state = "resolved"
     THEN UNCHANGED <<cache, emissions, title, app, derived>>
     ELSE cache' = body /\ Emit(body)
  /\ UNCHANGED <<search, geo, navLanguage, pc, locPromise, resolveCalls,
                 geoCalls, location>>
  /\ UNCHANGED helperVars

\* data.json() resolves and the fetcher returns the body: the source stores
\* it and tells the watcher.
FetcherResolved(f, body) ==
  /\ fetches[f].state = "parsing"
  /\ SetFetch(f, "resolved", fetches[f].url, body)
  /\ completed' = Append(completed, f)
  /\ cache' = body
  /\ Emit(body)
  /\ UNCHANGED <<search, geo, navLanguage, pc, locPromise, resolveCalls,
                 geoCalls, location>>
  /\ UNCHANGED helperVars

----------------------------------------------------------------------------
(* The page.                                                               *)

\* The locales of the browsers the page is loaded in.
PageLocales == {Undefined, <<"e", "s", "-", "M", "X">>}

HelperIdle ==
  /\ fn = "none"
  /\ fin = <<>>
  /\ fout = <<>>
  /\ fstep = 0

Init ==
  /\ search \in Searches
  /\ geo \in {Geo("unsupported", <<>>, ""), Geo("idle", <<>>, "")}
  /\ navLanguage \in PageLocales
  /\ pc = "load"
  /\ locPromise = [state |-> "none", value |-> NotYet]
  /\ resolveCalls = 0
  /\ geoCalls = 0
  /\ location = NotYet
  /\ cache \in {NoData} \cup Responses
  /\ fetches = <<>>
  /\ completed = <<>>
  /\ emissions = <<>>
  /\ title = InitialTitle
  /\ app = InitialApp
  /\ derived = [stats |-> <<>>]
  /\ HelperIdle

\* The browser answers the position request.
GeoRespond ==
  \/ \E coords \in Coords : GeoSuccess(coords)
  \/ \E reason \in GeoErrors : GeoError(reason)

Next ==
  \/ LoadWithSearch
  \/ LoadWithoutSearch
  \/ GeoRespond
  \/ LocationResolved
  \/ Revalidate
  \/ \E f \in 1..Len(fetches) : FetcherRequest(f)
  \/ \E f \in 1..Len(fetches) : FetchFails(f)
  \/ \E f \in 1..Len(fetches) : FetchResponds(f)
  \/ \E f \in 1..Len(fetches) : JsonFails(f)
  \/ \E f \in 1..Len(fetches), body \in JsonBodies : FetcherResolved(f, body)

Spec == Init /\ [][Next]_vars

\* The browser calls one of the two callbacks of a pending position request:
\* the request carries timeout: 5000.
LiveSpec == Spec /\ WF_vars(GeoRespond)

----------------------------------------------------------------------------
(* The helpers of utils.js applied on their own.                           *)

\* The page at rest while a helper is applied on its own.
PageIdle ==
  /\ search = <<>>
  /\ geo = Geo("idle", <<>>, "")
  /\ navLanguage = Undefined
  /\ pc = "load"
  /\ locPromise = [state |-> "none", value |-> NotYet]
  /\ resolveCalls = 0
  /\ geoCalls = 0
  /\ location = NotYet
  /\ cache = NoData
  /\ fetches = <<>>
  /\ completed = <<>>
  /\ emissions = <<>>
  /\ title = InitialTitle
  /\ app = InitialApp
  /\ derived = [stats |-> <<>>]

\* The values navigator.language is drawn from: undefined and every string
\* of at most MaxLocaleLen characters.
Locales == SeqsUpTo({"e", "n", "U", "-"}, MaxLocaleLen) \cup {Undefined}

InitLanguage ==
  /\ PageIdle
  /\ fn = "useLanguage"
  /\ fin \in Locales
  /\ fout = <<>>
  /\ fstep = 0

\* await useLanguage() with navigator.language = fin.
ApplyUseLanguage ==
  /\ fn = "useLanguage"
  /\ fstep = 0
  /\ fout' = <<useLanguage(fin)>>
  /\ fstep' = 1
  /\ UNCHANGED <<fn, fin>>
  /\ UNCHANGED pageVars

SpecLanguage == InitLanguage /\ [][ApplyUseLanguage]_vars

\* Every code of the table, a number in no category, a code given as a
\* string, and a condition without a code.
Codes ==
  { Num(c) : c \in conditions.sunny \cup conditions.rainy \cup conditions.cloudy
                   \cup conditions.drizzle \cup conditions.overcast
                   \cup conditions.foggy \cup {1210} }
  \cup {Str("1000"), NoCode}

\* Icon names of at most MaxIconLen characters, and a condition without one.
Icons == SeqsUpTo({"d", "a", "y", "n"}, MaxIconLen) \cup {Undefined}

InitGradient ==
  /\ PageIdle
  /\ fn = "useGradient"
  /\ fin \in [code : Codes, icon : Icons]
  /\ fout = <<>>
  /\ fstep = 0

\* useGradient(fin)
ApplyUseGradient ==
  /\ fn = "useGradient"
  /\ fstep = 0
  /\ fout' = <<useGradient(fin)>>
  /\ fstep' = 1
  /\ UNCHANGED <<fn, fin>>
  /\ UNCHANGED pageVars

SpecGradient == InitGradient /\ [][ApplyUseGradient]_vars

\* What #app may hold before a render: a placeholder of the host page or
\* sections of an earlier render.
Nodes ==
  { [tag |-> "p", class |-> "loading"] }
  \cup UNION { {Fragment(d)[1], Fragment(d)[2]} : d \in Responses }

InitRender ==
  /\ PageIdle
  /\ fn = "render"
  /\ fin \in [container : SeqsUpTo(Nodes, MaxChildren), data : Responses]
  /\ fout = <<>>
  /\ fstep = 0

\* const App = html`...`; render(App), for the data fin.data, on the
\* container as the render before left it.
ApplyRender ==
  /\ fn = "render"
  /\ fstep < 2
  /\ fout' = Append(fout, render(IF fstep = 0 THEN fin.container ELSE fout[fstep],
                                 Fragment(fin.data)))
  /\ fstep' = fstep + 1
  /\ UNCHANGED <<fn, fin>>
  /\ UNCHANGED pageVars

SpecRender == InitRender /\ [][ApplyRender]_vars

----------------------------------------------------------------------------
(* Properties of the page load.                                            *)

\* The strings `${coords.latitude},${coords.longitude}` of the positions.
CoordStrings == { ToString(c[1]) \o "," \o ToString(c[2]) : c \in Coords }

\* The value of the first q parameter of the query string.
FirstQ ==
  LET i == CHOOSE k \in 1..Len(search) :
             search[k][1] = "q" /\ \A j \in 1..(k - 1) : search[j][1] # "q"
  IN  search[i][2]

\* C1: when the page URL carries a q parameter, the key handed to the
\* revalidating source, and the q of every request the fetcher issues, is
\* that parameter's value, and neither useLocation nor getCurrentPosition is
\* ever called.
C1_QueryOverridesGeolocation ==
  HasParam(search, "q") =>
    /\ geoCalls = 0
    /\ locPromise.state = "none"
    /\ pc # "awaitLocation"
    /\ pc = "watching" => location = FirstQ
    /\ \A f \in 1..Len(fetches) :
         fetches[f].state # "language" =>
           fetches[f].url = "{ApiUrl}?q=" \o FirstQ \o "&lang="
                              \o Join(useLanguage(navLanguage))

\* C1 witness: a page loaded with ?lang=fr&q=Paris has a request for Paris
\* in flight.
C1_Witness ==
  /\ search = << <<"lang", "fr">>, <<"q", "Paris">> >>
  /\ location = "Paris"
  /\ \E f \in 1..Len(fetches) : fetches[f].state = "inflight"

\* C2: when the page URL carries no q parameter, the key handed to the
\* revalidating source is what useLocation resolved with, "{lat},{lon}" or
\* "auto:ip", never null.
C2_NoQueryUsesGeolocation ==
  (~HasParam(search, "q") /\ pc = "watching") =>
    /\ location \in CoordStrings \cup {"auto:ip"}
    /\ location # Null

----------------------------------------------------------------------------
(* Properties of the watch callback.                                       *)

\* A body with the location and current objects of a WeatherResponse.
IsWeatherResponse(data) ==
  HasData(data) /\ "location" \in DOMAIN data /\ "current" \in DOMAIN data

Last(seq) == seq[Len(seq)]

\* `${x.name}` as the template literal prints it, "undefined" when absent.
NameOf(data) ==
  IF "location" \in DOMAIN data THEN data.location.name ELSE "undefined"

CountryOf(data) ==
  IF "location" \in DOMAIN data THEN data.location.country ELSE "undefined"

TempOf(data) ==
  IF "current" \in DOMAIN data THEN ToString(data.current.temp_f) ELSE "undefined"

\* The page shows data: its title and its temperature text.
Shows(data) ==
  /\ title = "Weather forecast in " \o NameOf(data) \o ", " \o CountryOf(data)
  /\ Len(app) = 2
  /\ app[1].temperature = TempOf(data) \o "°F"

\* C4: the page shows the data of the most recent emission that
\* carried data, and is untouched while no emission carried data.
C4_LastDataEmissionShown ==
  LET withData == SelectSeq(emissions, HasData)
  IN  IF withData # <<>> THEN Shows(Last(withData))
      ELSE title = InitialTitle /\ app = InitialApp

\* What the callback does keep (a lemma beside C4): the page shows the data
\* of the most recent emission that carried a WeatherResponse; emissions
\* without data, and emissions whose data has no location or current
\* object, change neither the title nor the container.
C4_LastResponseShown ==
  LET responses == SelectSeq(emissions, IsWeatherResponse)
  IN  IF responses # <<>> THEN Shows(Last(responses))
      ELSE title = InitialTitle /\ app = InitialApp

C9_GradientComputed ==
  LET responses == SelectSeq(emissions, IsWeatherResponse)
  IN  responses # <<>> =>
        /\ Len(derived.stats) = 3
        /\ derived.date = FormatDate(Last(responses).location.localtime)
        /\ derived.time = FormatTime(Last(responses).location.localtime)
        /\ "gradient" \in DOMAIN derived
        /\ derived.gradient = useGradient(Last(responses).current.condition)

\* C10: nothing guards against out-of-order completion: whenever a fetcher
\* call returns a WeatherResponse, the page shows that response after the
\* step, whether or not a call made later has already returned.
C10_NoCompletionGuard ==
  [][\A f \in 1..Len(fetches) :
       (/\ fetches[f].state = "parsing"
        /\ fetches'[f].state = "resolved"
        /\ IsWeatherResponse(fetches'[f].body))
       => /\ title' = Title(fetches'[f].body)
          /\ app' = Fragment(fetches'[f].body)]_vars

\* C10 witness: the second call returned London, then the first returned
\* Paris, and the page shows Paris.
C10_Witness ==
  /\ Len(completed) >= 2
  /\ \E f, g \in 1..Len(fetches) :
       /\ f < g
       /\ completed[Len(completed) - 1] = g
       /\ completed[Len(completed)] = f
       /\ fetches[g] = Fetch("resolved", fetches[g].url, LondonNight)
       /\ fetches[f] = Fetch("resolved", fetches[f].url, ParisNoon)
  /\ title = "Weather forecast in Paris, France"
  /\ app = Fragment(ParisNoon)

----------------------------------------------------------------------------
(* Properties of the helpers.                                              *)

Orange == "--from: var(--orange); --to: var(--yellow)"

NavyBlue == "--from: var(--navy); --to: var(--blue)"

BlueAqua == "--from: var(--blue); --to: var(--aqua)"

BlueTeal == "--from: var(--blue); --to: var(--teal)"

NavyTeal == "--from: var(--navy); --to: var(--teal)"

NavyOlive == "--from: var(--navy); --to: var(--olive)"

BlueOlive == "--from: var(--blue); --to: var(--olive)"

\* The code of the input is a number of the category.
InCategory(category) ==
  fin.code.type = "number" /\ fin.code.value \in conditions[category]

\* The icon name of the input has the letters d, a, y in a row.
DayIcon ==
  \E i \in 1..(Len(fin.icon) - 2) :
    fin.icon[i] = "d" /\ fin.icon[i + 1] = "a" /\ fin.icon[i + 2] = "y"

\* The descriptor of the first category, in the order sunny, rainy or
\* cloudy, drizzle, overcast, foggy, that holds the code, by day and night.
FirstMatch(out) ==
  LET pick(day, night) == out = IF DayIcon THEN day ELSE night
  IN  /\ InCategory("sunny") => pick(Orange, NavyBlue)
      /\ (~InCategory("sunny") /\ (InCategory("rainy") \/ InCategory("cloudy")))
           => pick(BlueAqua, NavyBlue)
      /\ (/\ \A c \in {"sunny", "rainy", "cloudy"} : ~InCategory(c)
          /\ InCategory("drizzle")) => pick(BlueTeal, NavyTeal)
      /\ (/\ \A c \in {"sunny", "rainy", "cloudy", "drizzle"} : ~InCategory(c)
          /\ InCategory("overcast")) => pick(NavyTeal, NavyOlive)
      /\ (/\ \A c \in {"sunny", "rainy", "cloudy", "drizzle", "overcast"} : ~InCategory(c)
          /\ InCategory("foggy")) => pick(BlueOlive, NavyOlive)
      /\ (\A c \in DOMAIN conditions : ~InCategory(c)) => pick(BlueAqua, NavyBlue)

\* C6 as stated: for every input useGradient returns the descriptor of the
\* first matching category, orange/yellow or navy/blue for a sunny code,
\* the default for a code in no category, and never fails.
C6_TotalGradient ==
  fstep = 1 => fout[1] # TypeError /\ FirstMatch(fout[1])

\* C6 amended: the same for every input whose icon is a string; a condition
\* without an icon is outside it.
C6_GradientOfStringIcon ==
  (fstep = 1 /\ fin.icon # Undefined) => fout[1] # TypeError /\ FirstMatch(fout[1])

\* C6 witness: a sunny code with an icon name containing "day" gave
\* orange/yellow.
C6_Witness ==
  /\ fstep = 1
  /\ fin.code = Num(1000)
  /\ DayIcon
  /\ fout[1] = Orange

\* C7: for a locale with a hyphen useLanguage resolves with the characters
\* before the first hyphen, for a locale without one with the whole locale,
\* and for an undefined or empty locale with "en".
C7_UseLanguage ==
  fstep = 1 =>
    IF fin = Undefined \/ fin = <<>> THEN fout[1] = <<"e", "n">>
    ELSE IF \E i \in 1..Len(fin) : fin[i] = "-"
    THEN \E i \in 1..Len(fin) :
           /\ fin[i] = "-"
           /\ \A j \in 1..(i - 1) : fin[j] # "-"
           /\ fout[1] = SubSeq(fin, 1, i - 1)
    ELSE fout[1] = fin

\* C7 witness: the locale "e-U" gave "e".
C7_Witness ==
  /\ fstep = 1
  /\ fin = <<"e", "-", "U">>
  /\ fout[1] = <<"e">>

\* C8: after a render the container holds exactly the two sections built
\* for the data, whatever it held before, and a second render of the same
\* data leaves it as the first did.
C8_RenderReplaces ==
  /\ fstep >= 1 => fout[1] = Fragment(fin.data)
  /\ fstep = 2 => fout[2] = fout[1]

\* C8 witness: a container that held two other nodes was rendered to twice.
C8_Witness ==
  /\ fstep = 2
  /\ Len(fin.container) = 2
  /\ fin.container # Fragment(fin.data)
  /\ fout[2] = Fragment(fin.data)

====
